---- MODULE Spec2Model ----
(***************************************************************************)
(* Model of flowerbloom (src/src/lib.rs): a Bloom filter with a builder,   *)
(* a pluggable 64-bit hash strategy, f32 sizing formulas and the           *)
(* insert / has / clear operations on a byte buffer.                       *)
(*                                                                         *)
(* u64 values are kept at their real width as four 16-bit limbs, most      *)
(* significant first.  The f32 sizing formulas are computed in IEEE 754    *)
(* single precision: a non-negative f32 is a 24-bit mantissa and an        *)
(* exponent, and every operation rounds to nearest, ties to even.          *)
(***************************************************************************)
EXTENDS Integers, Sequences, FiniteSets, TLC

\* ---------------------------------------------------------------- bounds
MaxCapacity == 10
NumItems == 3
MaxOverride == 2
MaxCollect == 3
MaxSizingItems == 2000

\* ------------------------------------------------------------- constants
LimbBase == 65536
MantissaMin == 8388608
HalfWord == 4096
ThreadsCapacity == 50
ThreadsFpRate == 30
NumThreads == 4
CollectSlack == 100
CollectFpRate == 30
ExactLimb == 100000

\* false positive rates, in thousandths: 0.01, 0.03, 0.20, 0.90, 1.0
Rates == {10, 30, 200, 900, 1000}

Capacities == 0..MaxCapacity
Items == 1..NumItems
Overrides == 0..MaxOverride
HashStrategies == {"DefaultHasher", "CustomHasher", "MaxHasher"}

\* ------------------------------------------------------ u64 arithmetic
\* an addition that wraps around modulo 2^64 instead of reporting overflow
wrapping_add(h, i) ==
    LET s4 == h[4] + i
        s3 == h[3] + (s4 \div LimbBase)
        s2 == h[2] + (s3 \div LimbBase)
        s1 == h[1] + (s2 \div LimbBase)
    IN  [some |-> TRUE,
         val |-> <<s1 % LimbBase, s2 % LimbBase, s3 % LimbBase,
                   s4 % LimbBase>>]

\* u64::checked_add(h, i as u64): None on overflow
checked_add(h, i) ==
    LET s4 == h[4] + i
        s3 == h[3] + (s4 \div LimbBase)
        s2 == h[2] + (s3 \div LimbBase)
        s1 == h[1] + (s2 \div LimbBase)
    IN  IF s1 >= LimbBase
        THEN [some |-> FALSE, val |-> <<0, 0, 0, 0>>]
        ELSE [some |-> TRUE,
              val |-> <<s1, s2 % LimbBase, s3 % LimbBase, s4 % LimbBase>>]

\* num % (capacity as u64), for 0 < m < 2^15
\* a remainder taken modulo m + 1, so that m itself is a possible index
ModU64Inclusive(num, m) ==
    LET r1 == num[1] % (m + 1)
        r2 == (r1 * LimbBase + num[2]) % (m + 1)
        r3 == (r2 * LimbBase + num[3]) % (m + 1)
    IN  (r3 * LimbBase + num[4]) % (m + 1)

ModU64(num, m) ==
    LET r1 == num[1] % m
        r2 == (r1 * LimbBase + num[2]) % m
        r3 == (r2 * LimbBase + num[3]) % m
    IN  (r3 * LimbBase + num[4]) % m

\* ------------------------------------------------------- hash strategies
\* first 8 bytes, big endian, of SHA3-256 of the decimal strings "0".."7"
Sha3_256Prefix ==
    << <<63970, 60074, 17113, 65182>>, <<26545, 30320, 23366, 8294>>,
       <<45489, 48414, 53824, 45385>>, <<7152, 45678, 45577, 1433>>,
       <<46096, 26491, 34029, 29690>>, <<34492, 22268, 22191, 19516>>,
       <<3175, 13641, 33257, 1673>>,   <<36763, 20942, 25167, 432>> >>

\* first 8 bytes, big endian, of SHA3-512 of the decimal strings "0".."7"
Sha3_512Prefix ==
    << <<11588, 55891, 62213, 43924>>, <<51756, 28860, 4905, 35921>>,
       <<22094, 6513, 9022, 2444>>,    <<29691, 9834, 36927, 38250>>,
       <<14325, 22547, 19370, 21337>>, <<51019, 55643, 34133, 10066>>,
       <<20538, 54070, 19777, 41526>>, <<29390, 37393, 21911, 27528>> >>

\* item x stands for the string format!("{}", x - 1)
DefaultHasher(item) == Sha3_256Prefix[item]

CustomHasher(item) == Sha3_512Prefix[item]

\* a user supplied Hasher whose digests sit at the top of the u64 range:
\* item x hashes to 2^64 - x
MaxHasher(item) == <<65535, 65535, 65535, LimbBase - item>>

\* (self.hash_fn)(&elem)
Hash(hash_fn, item) ==
    CASE hash_fn = "DefaultHasher" -> DefaultHasher(item)
      [] hash_fn = "CustomHasher" -> CustomHasher(item)
      [] OTHER -> MaxHasher(item)

\* ---------------------------------------------------------------- sizing
CeilDiv(a, b) == (a + b - 1) \div b

Pow2(n) == 2 ^ n

\* ----- f32 arithmetic on non-negative values: [m, e] stands for m * 2^e,
\* with m = 0 or 2^23 <= m < 2^24
F32Zero == [m |-> 0, e |-> 0]

RECURSIVE Normalize(_, _)
Normalize(m, e) ==
    IF m = 0 THEN F32Zero
    ELSE IF m < MantissaMin THEN Normalize(2 * m, e - 1)
    ELSE [m |-> m, e |-> e]

\* n as f32, exact for n < 2^24
U32AsF32(n) == Normalize(n, 0)

\* round to nearest, ties to even: q is the truncated mantissa and rem / unit
\* the fraction that was cut off
RoundF32(q, e, rem, unit) ==
    LET up == 2 * rem > unit \/ (2 * rem = unit /\ q % 2 = 1)
        m1 == IF up THEN q + 1 ELSE q
    IN  IF m1 = 2 * MantissaMin
        THEN [m |-> MantissaMin, e |-> e + 1]
        ELSE [m |-> m1, e |-> e]

\* x * y in f32
F32Mul(x, y) ==
    IF x.m = 0 \/ y.m = 0 THEN F32Zero
    ELSE LET a1 == x.m \div HalfWord
             b1 == x.m % HalfWord
             a2 == y.m \div HalfWord
             b2 == y.m % HalfWord
             p0 == b1 * b2
             p1 == a1 * b2 + a2 * b1
             p2 == a1 * a2
             lo_total == (p1 % HalfWord) * HalfWord + p0
             hi == p2 + (p1 \div HalfWord) + (lo_total \div (2 * MantissaMin))
             lo == lo_total % (2 * MantissaMin)
         IN  IF hi >= MantissaMin
             THEN RoundF32(hi, x.e + y.e + 24, lo, 2 * MantissaMin)
             ELSE RoundF32(2 * hi + (lo \div MantissaMin), x.e + y.e + 23,
                           lo % MantissaMin, MantissaMin)

RECURSIVE LongDiv(_, _, _, _)
\* steps more binary digits of the quotient q with remainder r, divisor d
LongDiv(q, r, d, steps) ==
    IF steps = 0 THEN [q |-> q, r |-> r]
    ELSE IF 2 * r >= d
    THEN LongDiv(2 * q + 1, 2 * r - d, d, steps - 1)
    ELSE LongDiv(2 * q, 2 * r, d, steps - 1)

\* x / y in f32, y > 0
F32Div(x, y) ==
    IF x.m = 0 THEN F32Zero
    ELSE LET s == IF x.m >= y.m THEN 23 ELSE 24
             d == LongDiv(x.m \div y.m, x.m % y.m, y.m, s)
         IN  RoundF32(d.q, x.e - y.e - s, d.r, y.m)

\* x.ceil() as u32, for values below 2^31
F32Ceil(x) ==
    IF x.m = 0 THEN 0
    ELSE IF x.e >= 0 THEN x.m * Pow2(x.e)
    ELSE IF -x.e > 30 THEN 1
    ELSE CeilDiv(x.m, Pow2(-x.e))

\* 2f32.ln()
Ln2F32 == [m |-> 11629080, e |-> -24]

\* -fp_rate.ln() for the f32 nearest to the rate
NegLnF32(fp_rate) ==
    CASE fp_rate = 10 -> [m |-> 9657742, e |-> -21]
      [] fp_rate = 30 -> [m |-> 14707570, e |-> -22]
      [] fp_rate = 200 -> [m |-> 13500944, e |-> -23]
      [] fp_rate = 900 -> [m |-> 14141253, e |-> -27]
      [] OTHER -> F32Zero

\* ((-(num_items as f32) * fp_rate.ln()) / 2f32.ln().powi(2)).ceil() as u32
optimal_bits_needed(num_items, fp_rate) ==
    F32Ceil(F32Div(F32Mul(U32AsF32(num_items), NegLnF32(fp_rate)),
                   F32Mul(Ln2F32, Ln2F32)))

\* ((bits as f32 / num_items as f32) * 2f32.ln()).ceil() as u32, after the
\* assert!(num_items > 0) has passed
optimal_num_hash_fns(num_items, fp_rate) ==
    F32Ceil(F32Mul(F32Div(U32AsF32(optimal_bits_needed(num_items, fp_rate)),
                          U32AsF32(num_items)),
                   Ln2F32))

\* (required_bits as f64 / 8.0).ceil() as usize
BufferSize(required_bits) == CeilDiv(required_bits, 8)

\* ------------------------------------------------------------ bit buffer
\* a has that reads the lowest bit of the byte whatever the offset
GetBitNoShift(b, pos_within_bits) == b % 2

\* (*b >> pos_within_bits) & 1
GetBit(b, pos_within_bits) == (b \div Pow2(pos_within_bits)) % 2

\* an insert that toggles the bit (^=) instead of or-ing it in
SetBitXor(b, pos_within_bits) ==
    IF (b \div Pow2(pos_within_bits)) % 2 = 1
    THEN b - Pow2(pos_within_bits)
    ELSE b + Pow2(pos_within_bits)

\* an insert that assigns the mask instead of or-ing it in
SetBitAssign(b, pos_within_bits) == Pow2(pos_within_bits)

\* *b |= 1 << pos_within_bits
\* a set that adds the bit without looking, carrying into the next one
SetBitAdd(b, pos_within_bits) == (b + Pow2(pos_within_bits)) % 256

SetBit(b, pos_within_bits) ==
    IF (b \div Pow2(pos_within_bits)) % 2 = 1
    THEN b
    ELSE b + Pow2(pos_within_bits)

\* iter::repeat(0).take(size).collect()
ZeroBits(size) == [j \in 1..size |-> 0]

\* the bit of the buffer with global bit index idx
BitAt(bits, idx) == (bits[(idx \div 8) + 1] \div Pow2(idx % 8)) % 2

\* ---------------------------------------------------------------- state
VARIABLES
    phase,       \* "start", "builder", "ready" or "panicked"
    builder,     \* the BloomBuilder: capacity, fp_rate, num_hash_fns, hash_fn
    bf,          \* the BloomFilter: bits, capacity, num_hash_fns, hash_fn
    built_with,  \* the (capacity, fp_rate) the filter was built from
    inserted,    \* items whose insert returned since construction or clear
    cleared,     \* clear() returned and no insert has run since
    last,        \* the last call: op, item, outcome, result, hash calls
    tpc,         \* threads test: position of each spawned thread
    lock,        \* threads test: holder of the Mutex, 0 when free
    poisoned,    \* threads test: the Mutex is poisoned
    mpc,         \* threads test: position of the main thread
    collected,   \* from_iter: the items of the iterator, in order
    calc,        \* sizing functions: the arguments and the value returned
    twin         \* the same calls made on a filter from each constructor

vars == <<phase, builder, bf, built_with, inserted, cleared, last,
          tpc, lock, poisoned, mpc, collected, calc, twin>>

filterVars == <<phase, builder, bf, built_with, inserted, cleared, last>>

threadVars == <<tpc, lock, poisoned, mpc>>

auxVars == <<collected, calc, twin>>

NoCalc == [pc |-> "off", n |-> 0, p |-> 1000, value |-> 0]

NoTwin == [pc |-> "off"]

None == [some |-> FALSE, n |-> 0]

Some(n) == [some |-> TRUE, n |-> n]

Call(op, item, outcome, result, calls) ==
    [op |-> op, item |-> item, outcome |-> outcome, result |-> result,
     calls |-> calls]

NoFilter == [bits |-> <<>>, capacity |-> 0, num_hash_fns |-> 0,
             hash_fn |-> "DefaultHasher"]

NoBuilder == [capacity |-> 0, fp_rate |-> 1000, num_hash_fns |-> None,
              hash_fn |-> "DefaultHasher"]

\* --------------------------------------------------- insert / has / clear
RECURSIVE InsertLoop(_, _, _, _)
\* the body of `for i in 0..self.num_hash_fns` of insert, from index i on
InsertLoop(f, elem, i, bits) ==
    IF i >= f.num_hash_fns
    THEN [bits |-> bits, outcome |-> "ok", calls |-> i]
    ELSE LET num == checked_add(Hash(f.hash_fn, elem), i)
         IN  IF ~num.some
             THEN [bits |-> bits, outcome |-> "overflow", calls |-> i + 1]
             ELSE IF f.capacity = 0
             THEN [bits |-> bits, outcome |-> "div_by_zero", calls |-> i + 1]
             ELSE LET idx == ModU64(num.val, f.capacity)
                      pos == idx \div 8
                      pos_within_bits == idx % 8
                  IN  IF pos >= Len(bits)
                      THEN [bits |-> bits, outcome |-> "unreachable",
                            calls |-> i + 1]
                      ELSE InsertLoop(f, elem, i + 1,
                               [bits EXCEPT ![pos + 1] =
                                   SetBit(@, pos_within_bits)])

\* an insert that starts from an empty buffer instead of the current one
insertOverwrite(f, elem) == InsertLoop(f, elem, 0, ZeroBits(Len(f.bits)))

\* BloomFilter::insert
\* an insert that skips the probe at offset 0
insertFromOne(f, elem) == InsertLoop(f, elem, 1, f.bits)

insert(f, elem) == InsertLoop(f, elem, 0, f.bits)

RECURSIVE HasLoop(_, _, _)
\* the body of `for i in 0..self.num_hash_fns` of has, from index i on
HasLoop(f, elem, i) ==
    IF i >= f.num_hash_fns
    THEN [result |-> TRUE, outcome |-> "ok", calls |-> i]
    ELSE LET num == checked_add(Hash(f.hash_fn, elem), i)
         IN  IF ~num.some
             THEN [result |-> FALSE, outcome |-> "overflow", calls |-> i + 1]
             ELSE IF f.capacity = 0
             THEN [result |-> FALSE, outcome |-> "div_by_zero",
                   calls |-> i + 1]
             ELSE LET idx == ModU64(num.val, f.capacity)
                      pos == idx \div 8
                      pos_within_bits == idx % 8
                  IN  IF pos >= Len(f.bits)
                      THEN [result |-> FALSE, outcome |-> "unreachable",
                            calls |-> i + 1]
                      ELSE IF GetBit(f.bits[pos + 1], pos_within_bits) = 0
                      THEN [result |-> FALSE, outcome |-> "ok",
                            calls |-> i + 1]
                      ELSE HasLoop(f, elem, i + 1)

\* a has whose loop starts at probe index 1
hasSkipFirst(f, elem) == HasLoop(f, elem, 1)

\* BloomFilter::has
has(f, elem) == HasLoop(f, elem, 0)

\* a clear that empties the vector instead of zeroing its bytes
clearTruncate(f) == [f EXCEPT !.bits = <<>>]

\* a clear that resets the filter to the default strategy as well
clearRebuild(f) ==
    [f EXCEPT !.bits = [j \in 1..Len(f.bits) |-> 0],
              !.hash_fn = "DefaultHasher"]

\* BloomFilter::clear
clear(f) == [f EXCEPT !.bits = [j \in 1..Len(f.bits) |-> 0]]

\* ---------------------------------------------------------- construction
\* BloomBuilder::build: the filter it returns
BuildFilter(b) ==
    LET num_hash_fns == IF b.num_hash_fns.some
                        THEN b.num_hash_fns.n
                        ELSE optimal_num_hash_fns(b.capacity, b.fp_rate)
        required_bits == optimal_bits_needed(b.capacity, b.fp_rate)
        size == BufferSize(required_bits)
    IN  [bits |-> ZeroBits(size), capacity |-> b.capacity,
         num_hash_fns |-> num_hash_fns, hash_fn |-> b.hash_fn]

\* BloomBuilder::build reaches the assert!(num_items > 0) and it fails
BuildAsserts(b) == ~b.num_hash_fns.some /\ b.capacity = 0

\* a new that truncates the byte count instead of rounding it up
NewFilterTruncated(capacity, desired_fp_rate) ==
    LET required_bits == optimal_bits_needed(capacity, desired_fp_rate)
        num_hashes == optimal_num_hash_fns(capacity, desired_fp_rate)
    IN  [bits |-> ZeroBits(required_bits \div 8), capacity |-> capacity,
         num_hash_fns |-> num_hashes, hash_fn |-> "DefaultHasher"]

\* BloomFilter::new: the filter it returns
NewFilter(capacity, desired_fp_rate) ==
    LET required_bits == optimal_bits_needed(capacity, desired_fp_rate)
        num_hashes == optimal_num_hash_fns(capacity, desired_fp_rate)
        size == BufferSize(required_bits)
    IN  [bits |-> ZeroBits(size), capacity |-> capacity,
         num_hash_fns |-> num_hashes, hash_fn |-> "DefaultHasher"]

\* BloomFilter::new reaches the assert!(num_items > 0) and it fails
NewAsserts(capacity) == capacity = 0

\* --------------------------------------------------------------- actions
Init ==
    /\ phase = "start"
    /\ builder = NoBuilder
    /\ bf = NoFilter
    /\ built_with = [capacity |-> 0, fp_rate |-> 1000]
    /\ inserted = {}
    /\ cleared = FALSE
    /\ last = Call("none", 0, "ok", FALSE, 0)
    /\ tpc = [t \in 1..NumThreads |-> "unspawned"]
    /\ lock = 0
    /\ poisoned = FALSE
    /\ mpc = [pc |-> "off", i |-> 0]
    /\ collected = <<>>
    /\ calc = NoCalc
    /\ twin = NoTwin

\* BloomBuilder::new(capacity, fp_rate)
BuilderNew(capacity, fp_rate) ==
    /\ phase = "start"
    /\ phase' = "builder"
    /\ builder' = [capacity |-> capacity, fp_rate |-> fp_rate,
                   num_hash_fns |-> None, hash_fn |-> "DefaultHasher"]
    /\ last' = Call("BuilderNew", 0, "ok", FALSE, 0)
    /\ UNCHANGED <<bf, built_with, inserted, cleared, threadVars, auxVars>>

\* BloomBuilder::num_hash_funcs(num_hash_fns)
NumHashFuncs(num_hash_fns) ==
    /\ phase = "builder"
    /\ builder' = [builder EXCEPT !.num_hash_fns = Some(num_hash_fns)]
    /\ last' = Call("num_hash_funcs", 0, "ok", FALSE, 0)
    /\ UNCHANGED <<phase, bf, built_with, inserted, cleared, threadVars, auxVars>>

\* BloomBuilder::hasher::<H>()
SetHasher(H) ==
    /\ phase = "builder"
    /\ builder' = [builder EXCEPT !.hash_fn = H]
    /\ last' = Call("hasher", 0, "ok", FALSE, 0)
    /\ UNCHANGED <<phase, bf, built_with, inserted, cleared, threadVars, auxVars>>

\* BloomBuilder::build()
Build ==
    /\ phase = "builder"
    /\ IF BuildAsserts(builder)
       THEN /\ phase' = "panicked"
            /\ last' = Call("build", 0, "assert", FALSE, 0)
            /\ UNCHANGED <<bf, built_with>>
       ELSE /\ phase' = "ready"
            /\ bf' = BuildFilter(builder)
            /\ built_with' = [capacity |-> builder.capacity,
                              fp_rate |-> builder.fp_rate]
            /\ last' = Call("build", 0, "ok", FALSE, 0)
    /\ UNCHANGED <<builder, inserted, cleared, threadVars, auxVars>>

\* BloomFilter::new(capacity, desired_fp_rate)
New(capacity, desired_fp_rate) ==
    /\ phase = "start"
    /\ IF NewAsserts(capacity)
       THEN /\ phase' = "panicked"
            /\ last' = Call("new", 0, "assert", FALSE, 0)
            /\ UNCHANGED <<bf, built_with>>
       ELSE /\ phase' = "ready"
            /\ bf' = NewFilter(capacity, desired_fp_rate)
            /\ built_with' = [capacity |-> capacity,
                              fp_rate |-> desired_fp_rate]
            /\ last' = Call("new", 0, "ok", FALSE, 0)
    /\ UNCHANGED <<builder, inserted, cleared, threadVars, auxVars>>

\* bf.insert(elem)
Insert(elem) ==
    /\ phase = "ready"
    /\ LET r == insert(bf, elem)
       IN  /\ bf' = [bf EXCEPT !.bits = r.bits]
           /\ phase' = IF r.outcome = "ok" THEN "ready" ELSE "panicked"
           /\ inserted' = IF r.outcome = "ok"
                          THEN inserted \cup {elem} ELSE inserted
           /\ last' = Call("insert", elem, r.outcome, FALSE, r.calls)
    /\ cleared' = FALSE
    /\ UNCHANGED <<builder, built_with, threadVars, auxVars>>

\* bf.has(elem)
Has(elem) ==
    /\ phase = "ready"
    /\ LET r == has(bf, elem)
       IN  /\ phase' = IF r.outcome = "ok" THEN "ready" ELSE "panicked"
           /\ last' = Call("has", elem, r.outcome, r.result, r.calls)
    /\ UNCHANGED <<builder, bf, built_with, inserted, cleared, threadVars, auxVars>>

\* bf.clear()
Clear ==
    /\ phase = "ready"
    /\ bf' = clear(bf)
    /\ inserted' = {}
    /\ cleared' = TRUE
    /\ last' = Call("clear", 0, "ok", FALSE, 0)
    /\ UNCHANGED <<phase, builder, built_with, threadVars, auxVars>>

Next ==
    \/ \E c \in Capacities, p \in Rates : BuilderNew(c, p)
    \/ \E n \in Overrides : NumHashFuncs(n)
    \/ \E H \in HashStrategies : SetHasher(H)
    \/ Build
    \/ \E c \in Capacities, p \in Rates : New(c, p)
    \/ \E x \in Items : Insert(x)
    \/ \E x \in Items : Has(x)
    \/ Clear

Spec == Init /\ [][Next]_vars

\* ------------------------------------------------- tests::threads
\* let bf = BloomBuilder::new(num_items, fp_rate).build(), wrapped in
\* Arc<Mutex<_>>; the capacity and the hash strategy range over a few values
InitThreads ==
    /\ phase = "ready"
    /\ \E c \in {MaxCapacity, ThreadsCapacity}, H \in HashStrategies :
          builder = [capacity |-> c, fp_rate |-> ThreadsFpRate,
                     num_hash_fns |-> None, hash_fn |-> H]
    /\ bf = BuildFilter(builder)
    /\ built_with = [capacity |-> builder.capacity,
                     fp_rate |-> builder.fp_rate]
    /\ inserted = {}
    /\ cleared = FALSE
    /\ last = Call("build", 0, "ok", FALSE, 0)
    /\ tpc = [t \in 1..NumThreads |-> "unspawned"]
    /\ lock = 0
    /\ poisoned = FALSE
    /\ mpc = [pc |-> "spawn", i |-> 1]
    /\ collected = <<>>
    /\ calc = NoCalc
    /\ twin = NoTwin

\* main: thread::spawn for the next i of 0..=3
MSpawn ==
    /\ mpc.pc = "spawn"
    /\ tpc' = [tpc EXCEPT ![mpc.i] = "spawned"]
    /\ mpc' = IF mpc.i = NumThreads
              THEN [pc |-> "join", i |-> 1]
              ELSE [pc |-> "spawn", i |-> mpc.i + 1]
    /\ UNCHANGED <<filterVars, auxVars, lock, poisoned>>

\* thread t: bf.lock().unwrap()
TLock(t) ==
    /\ tpc[t] = "spawned"
    /\ lock = 0
    /\ IF poisoned
       THEN /\ tpc' = [tpc EXCEPT ![t] = "panicked"]
            /\ UNCHANGED lock
       ELSE /\ tpc' = [tpc EXCEPT ![t] = "locked"]
            /\ lock' = t
    /\ UNCHANGED <<filterVars, auxVars, poisoned, mpc>>

\* thread t: filter.insert(format!("{}", i)); a panic unwinds, poisons the
\* Mutex and drops the guard
TInsert(t) ==
    /\ tpc[t] = "locked"
    /\ LET r == insert(bf, t)
       IN  /\ bf' = [bf EXCEPT !.bits = r.bits]
           /\ last' = Call("insert", t, r.outcome, FALSE, r.calls)
           /\ IF r.outcome = "ok"
              THEN /\ tpc' = [tpc EXCEPT ![t] = "inserted"]
                   /\ inserted' = inserted \cup {t}
                   /\ UNCHANGED <<lock, poisoned>>
              ELSE /\ tpc' = [tpc EXCEPT ![t] = "panicked"]
                   /\ poisoned' = TRUE
                   /\ lock' = 0
                   /\ UNCHANGED inserted
    /\ cleared' = FALSE
    /\ UNCHANGED <<phase, builder, built_with, mpc, auxVars>>

\* thread t: the closure returns and the MutexGuard is dropped
TUnlock(t) ==
    /\ tpc[t] = "inserted"
    /\ lock' = 0
    /\ tpc' = [tpc EXCEPT ![t] = "done"]
    /\ UNCHANGED <<filterVars, auxVars, poisoned, mpc>>

\* main: handle.join().unwrap() for the next handle
MJoin ==
    /\ mpc.pc = "join"
    /\ tpc[mpc.i] \in {"done", "panicked"}
    /\ mpc' = IF tpc[mpc.i] = "panicked"
              THEN [pc |-> "panicked", i |-> mpc.i]
              ELSE IF mpc.i = NumThreads
              THEN [pc |-> "check", i |-> 0]
              ELSE [pc |-> "join", i |-> mpc.i + 1]
    /\ UNCHANGED <<filterVars, auxVars, tpc, lock, poisoned>>

\* main: assert_eq!(false, bf.lock().unwrap().has("4".to_string()))
MCheck ==
    /\ mpc.pc = "check"
    /\ lock = 0
    /\ IF poisoned
       THEN /\ mpc' = [pc |-> "panicked", i |-> 0]
            /\ UNCHANGED last
       ELSE LET r == has(bf, NumThreads + 1)
            IN  /\ last' = Call("has", NumThreads + 1, r.outcome, r.result,
                                r.calls)
                /\ mpc' = IF r.outcome = "ok" /\ ~r.result
                          THEN [pc |-> "done", i |-> 0]
                          ELSE [pc |-> "panicked", i |-> 0]
    /\ UNCHANGED <<phase, builder, bf, built_with, inserted, cleared,
                   tpc, lock, poisoned, auxVars>>

NextThreads ==
    \/ MSpawn
    \/ \E t \in 1..NumThreads : TLock(t)
    \/ \E t \in 1..NumThreads : TInsert(t)
    \/ \E t \in 1..NumThreads : TUnlock(t)
    \/ MJoin
    \/ MCheck

SpecThreads == InitThreads /\ [][NextThreads]_vars

\* ------------------------------------------- FromIterator for BloomFilter
\* the iterators that are collected: every sequence of at most MaxCollect items
CollectInputs == UNION {[1..n -> Items] : n \in 0..MaxCollect}

\* a capacity without the slack
CollectCapacityNoSlack(items) == Len(items)

\* let capacity = items.len() + 100
CollectCapacity(items) == Len(items) + CollectSlack

RECURSIVE InsertAll(_, _, _)
\* for i in items.into_iter() { bloom_filter.insert(i) }, from position j on
InsertAll(f, items, j) ==
    IF j > Len(items)
    THEN [bits |-> f.bits, outcome |-> "ok"]
    ELSE LET r == insert(f, items[j])
         IN  IF r.outcome # "ok"
             THEN [bits |-> r.bits, outcome |-> r.outcome]
             ELSE InsertAll([f EXCEPT !.bits = r.bits], items, j + 1)

\* items.into_iter().collect::<BloomFilter<_>>()
FromIter(items) ==
    /\ phase = "start"
    /\ collected' = items
    /\ LET b == [capacity |-> CollectCapacity(items),
                 fp_rate |-> CollectFpRate,
                 num_hash_fns |-> None, hash_fn |-> "DefaultHasher"]
       IN  /\ builder' = b
           /\ IF BuildAsserts(b)
              THEN /\ phase' = "panicked"
                   /\ last' = Call("from_iter", 0, "assert", FALSE, 0)
                   /\ UNCHANGED <<bf, built_with, inserted>>
              ELSE LET r == InsertAll(BuildFilter(b), items, 1)
                   IN  /\ bf' = [BuildFilter(b) EXCEPT !.bits = r.bits]
                       /\ built_with' = [capacity |-> b.capacity,
                                         fp_rate |-> b.fp_rate]
                       /\ phase' = IF r.outcome = "ok"
                                   THEN "ready" ELSE "panicked"
                       /\ inserted' = IF r.outcome = "ok"
                                      THEN {items[j] : j \in 1..Len(items)}
                                      ELSE {}
                       /\ last' = Call("from_iter", 0, r.outcome, FALSE, 0)
    /\ UNCHANGED <<cleared, threadVars, calc, twin>>

NextCollect ==
    \/ \E items \in CollectInputs : FromIter(items)
    \/ \E x \in Items : Insert(x)
    \/ \E x \in Items : Has(x)
    \/ Clear

SpecCollect == Init /\ [][NextCollect]_vars

\* ------------------------------ optimal_bits_needed / optimal_num_hash_fns
InitSizing ==
    /\ phase = "start"
    /\ builder = NoBuilder
    /\ bf = NoFilter
    /\ built_with = [capacity |-> 0, fp_rate |-> 1000]
    /\ inserted = {}
    /\ cleared = FALSE
    /\ last = Call("none", 0, "ok", FALSE, 0)
    /\ tpc = [t \in 1..NumThreads |-> "unspawned"]
    /\ lock = 0
    /\ poisoned = FALSE
    /\ mpc = [pc |-> "off", i |-> 0]
    /\ collected = <<>>
    /\ \E n \in 0..MaxSizingItems, p \in Rates :
          calc = [pc |-> "input", n |-> n, p |-> p, value |-> 0]
    /\ twin = NoTwin

\* optimal_bits_needed(num_items, fp_rate)
CallBitsNeeded ==
    /\ calc.pc = "input"
    /\ calc' = [calc EXCEPT !.pc = "bits",
                            !.value = optimal_bits_needed(calc.n, calc.p)]
    /\ UNCHANGED <<filterVars, threadVars, collected, twin>>

\* optimal_num_hash_fns(num_items, fp_rate), with its assert!(num_items > 0)
CallNumHashFns ==
    /\ calc.pc = "input"
    /\ calc' = IF calc.n = 0
               THEN [calc EXCEPT !.pc = "panicked"]
               ELSE [calc EXCEPT !.pc = "hashes",
                         !.value = optimal_num_hash_fns(calc.n, calc.p)]
    /\ UNCHANGED <<filterVars, threadVars, collected, twin>>

NextSizing == CallBitsNeeded \/ CallNumHashFns

SpecSizing == InitSizing /\ [][NextSizing]_vars

\* ------------- BloomFilter::new next to BloomBuilder::new(..).build()
\* one of the two filters: its phase, the filter and its last call
Side(ph, f, out) == [phase |-> ph, bf |-> f, out |-> out]

NoSide == Side("start", NoFilter, Call("none", 0, "ok", FALSE, 0))

InitTwin ==
    /\ phase = "start"
    /\ builder = NoBuilder
    /\ bf = NoFilter
    /\ built_with = [capacity |-> 0, fp_rate |-> 1000]
    /\ inserted = {}
    /\ cleared = FALSE
    /\ last = Call("none", 0, "ok", FALSE, 0)
    /\ tpc = [t \in 1..NumThreads |-> "unspawned"]
    /\ lock = 0
    /\ poisoned = FALSE
    /\ mpc = [pc |-> "off", i |-> 0]
    /\ collected = <<>>
    /\ calc = NoCalc
    /\ twin = [pc |-> "start", a |-> NoSide, b |-> NoSide]

\* BloomFilter::new(capacity, desired_fp_rate)
SideNew(capacity, desired_fp_rate) ==
    IF NewAsserts(capacity)
    THEN Side("panicked", NoFilter, Call("construct", 0, "assert", FALSE, 0))
    ELSE Side("ready", NewFilter(capacity, desired_fp_rate),
              Call("construct", 0, "ok", FALSE, 0))

\* BloomBuilder::new(capacity, fp_rate).build()
SideBuild(capacity, fp_rate) ==
    LET b == [capacity |-> capacity, fp_rate |-> fp_rate,
              num_hash_fns |-> None, hash_fn |-> "DefaultHasher"]
    IN  IF BuildAsserts(b)
        THEN Side("panicked", NoFilter,
                  Call("construct", 0, "assert", FALSE, 0))
        ELSE Side("ready", BuildFilter(b),
                  Call("construct", 0, "ok", FALSE, 0))

\* insert on one of the two filters
SideInsert(s, elem) ==
    IF s.phase # "ready" THEN s
    ELSE LET r == insert(s.bf, elem)
         IN  Side(IF r.outcome = "ok" THEN "ready" ELSE "panicked",
                  [s.bf EXCEPT !.bits = r.bits],
                  Call("insert", elem, r.outcome, FALSE, r.calls))

\* has on one of the two filters
SideHas(s, elem) ==
    IF s.phase # "ready" THEN s
    ELSE LET r == has(s.bf, elem)
         IN  Side(IF r.outcome = "ok" THEN "ready" ELSE "panicked",
                  s.bf, Call("has", elem, r.outcome, r.result, r.calls))

\* clear on one of the two filters
SideClear(s) ==
    IF s.phase # "ready" THEN s
    ELSE Side("ready", clear(s.bf), Call("clear", 0, "ok", FALSE, 0))

TwinLive == twin.pc = "built" /\ (twin.a.phase = "ready"
                                   \/ twin.b.phase = "ready")

TwinConstruct(capacity, fp_rate) ==
    /\ twin.pc = "start"
    /\ twin' = [pc |-> "built", a |-> SideNew(capacity, fp_rate),
                b |-> SideBuild(capacity, fp_rate)]
    /\ UNCHANGED <<filterVars, threadVars, collected, calc>>

TwinInsert(elem) ==
    /\ TwinLive
    /\ twin' = [twin EXCEPT !.a = SideInsert(@, elem),
                            !.b = SideInsert(@, elem)]
    /\ UNCHANGED <<filterVars, threadVars, collected, calc>>

TwinHas(elem) ==
    /\ TwinLive
    /\ twin' = [twin EXCEPT !.a = SideHas(@, elem), !.b = SideHas(@, elem)]
    /\ UNCHANGED <<filterVars, threadVars, collected, calc>>

TwinClear ==
    /\ TwinLive
    /\ twin' = [twin EXCEPT !.a = SideClear(@), !.b = SideClear(@)]
    /\ UNCHANGED <<filterVars, threadVars, collected, calc>>

NextTwin ==
    \/ \E c \in Capacities, p \in Rates : TwinConstruct(c, p)
    \/ \E x \in Items : TwinInsert(x)
    \/ \E x \in Items : TwinHas(x)
    \/ TwinClear

SpecTwin == InitTwin /\ [][NextTwin]_vars

\* ----------------------------------------- inserts replayed on an empty
\* buffer: insert called once per item of S, in increasing order
RECURSIVE InsertEach(_, _, _)
InsertEach(f, S, bits) ==
    IF S = {} THEN bits
    ELSE LET x == CHOOSE y \in S : \A z \in S : y <= z
             r == insert([f EXCEPT !.bits = bits], x)
         IN  InsertEach(f, S \ {x}, r.bits)

\* ---------------------------------------------------------------- claims
AllZero(bits) == \A j \in 1..Len(bits) : bits[j] = 0

BitIndexes(bits) == 0..(8 * Len(bits) - 1)

\* the probe positions (h + i) mod capacity, i in [0, k), of an item
ProbeBits(f, elem) ==
    {ModU64(checked_add(Hash(f.hash_fn, elem), i).val, f.capacity) :
        i \in 0..(f.num_hash_fns - 1)}

\* C1: no false negatives: every item whose insert has returned since the
\* construction or the last clear queries true, whatever was inserted after
\* it, under every configuration and hash strategy; and a has call that was
\* made on such an item returned true.
NoFalseNegatives ==
    /\ \A x \in inserted :
          has(bf, x).outcome = "ok" /\ has(bf, x).result
    /\ (last.op = "has" /\ last.item \in inserted)
          => (last.outcome = "ok" /\ last.result)

WitnessNoFalseNegatives ==
    /\ phase = "ready"
    /\ Cardinality(inserted) >= 2
    /\ bf.num_hash_fns >= 2
    /\ last.op = "has"
    /\ last.item \in inserted
    /\ last.result

\* C2: on a constructed filter no call of insert or has aborts.
InsertAndHasNeverFail ==
    ~(phase = "panicked" /\ last.op \in {"insert", "has"})

\* C3: the buffer of a constructed filter holds at least capacity bits, and
\* neither insert nor has reaches the unreachable!() branch.
IndexInBounds ==
    /\ phase = "ready" => 8 * Len(bf.bits) >= bf.capacity
    /\ last.outcome # "unreachable"

\* C4: after clear() every byte is zero and, until the next insert, has
\* returns false for every item.
ClearIsFullReset ==
    (phase = "ready" /\ cleared) =>
        /\ AllZero(bf.bits)
        /\ \A y \in Items : has(bf, y).outcome = "ok" /\ ~has(bf, y).result

\* C5: a set bit stays set across every step that is not a clear().
Monotonic ==
    [][(phase = "ready" /\ last'.op # "clear") =>
          /\ Len(bf'.bits) = Len(bf.bits)
          /\ \A idx \in BitIndexes(bf.bits) :
                BitAt(bf.bits, idx) = 1 => BitAt(bf'.bits, idx) = 1]_vars

WitnessMonotonic ==
    /\ phase = "ready"
    /\ last.op = "insert"
    /\ Cardinality(inserted) >= 2
    /\ \E j \in 1..Len(bf.bits) : bf.bits[j] \notin {0, 1, 2, 4, 8, 16, 32,
                                                     64, 128}

\* C6: every filter that construction returns has num_hash_fns >= 1.
ProbeCountPositive == phase = "ready" => bf.num_hash_fns >= 1

\* C7: no construction path returns a filter with capacity 0.
CapacityZeroRejected == phase = "ready" => bf.capacity # 0

\* C8: the buffer has ceil(bits_needed(capacity, fp_rate) / 8) bytes in
\* every state from construction on, whatever was inserted, queried or
\* cleared, and all of them are zero in a freshly built filter.
BufferSizeInvariant ==
    LET required_bits ==
            optimal_bits_needed(built_with.capacity, built_with.fp_rate)
    IN  /\ (phase = "ready" \/ last.op \in {"insert", "has"}) =>
              /\ 8 * Len(bf.bits) >= required_bits
              /\ 8 * Len(bf.bits) < required_bits + 8
        /\ (phase = "ready" /\ last.op \in {"build", "new"}) =>
              AllZero(bf.bits)

WitnessBufferSize ==
    /\ phase = "ready"
    /\ Len(bf.bits) >= 2
    /\ last.op = "clear"
    /\ optimal_bits_needed(built_with.capacity, built_with.fp_rate) % 8 # 0

\* C9: capacity, probe count and hash strategy of a filter are unchanged by
\* every insert, has and clear, and clear changes nothing but the bits.
ConfigurationFrozen ==
    [][phase = "ready" =>
          /\ bf'.capacity = bf.capacity
          /\ bf'.num_hash_fns = bf.num_hash_fns
          /\ bf'.hash_fn = bf.hash_fn
          /\ last'.op = "clear" =>
                /\ bf' = [bf EXCEPT !.bits = bf'.bits]
                /\ phase' = phase
                /\ builder' = builder
                /\ built_with' = built_with]_vars

WitnessConfigurationFrozen ==
    /\ phase = "ready"
    /\ last.op = "clear"
    /\ bf.hash_fn = "CustomHasher"
    /\ bf.num_hash_fns = MaxOverride
    /\ bf.capacity = MaxCapacity

\* C10: once every thread has inserted its item under the lock and has been
\* joined, in whatever order the lock was taken, every inserted item queries
\* true and the set bits are exactly the probe bits of the inserted items.
AllJoined == mpc.pc \in {"check", "done"}

ThreadsSerialized ==
    AllJoined =>
        /\ inserted = 1..NumThreads
        /\ \A t \in 1..NumThreads :
              has(bf, t).outcome = "ok" /\ has(bf, t).result
        /\ \A idx \in BitIndexes(bf.bits) :
              BitAt(bf.bits, idx) = 1
                  <=> \E t \in 1..NumThreads : idx \in ProbeBits(bf, t)

WitnessThreadsSerialized ==
    /\ mpc.pc = "done"
    /\ bf.hash_fn = "DefaultHasher"
    /\ bf.capacity = ThreadsCapacity
    /\ tpc = [t \in 1..NumThreads |-> "done"]

\* C11: collecting n items yields a filter of capacity n + 100 sized for
\* rate 0.03, with the default hash strategy and the derived probe count, in
\* which every collected item queries true.
BulkConstruction ==
    (last.op = "from_iter" /\ phase = "ready") =>
        /\ bf.capacity = Len(collected) + 100
        /\ built_with = [capacity |-> Len(collected) + 100, fp_rate |-> 30]
        /\ bf.hash_fn = "DefaultHasher"
        /\ bf.num_hash_fns = optimal_num_hash_fns(Len(collected) + 100, 30)
        /\ 8 * Len(bf.bits) >= optimal_bits_needed(Len(collected) + 100, 30)
        /\ \A j \in 1..Len(collected) :
              has(bf, collected[j]).outcome = "ok"
                  /\ has(bf, collected[j]).result

WitnessBulkConstruction ==
    /\ last.op = "from_iter"
    /\ phase = "ready"
    /\ Len(collected) = MaxCollect
    /\ Cardinality(inserted) >= 2
    /\ bf.num_hash_fns = 6

\* ln(2)^2 and -ln(p) to ten decimals, as two limbs of five decimal digits
Ln2SqExact == <<48045, 30139>>

NegLnExact(p) ==
    CASE p = 10 -> <<460517, 1859>>
      [] p = 30 -> <<350655, 78973>>
      [] p = 200 -> <<160943, 79124>>
      [] p = 900 -> <<10536, 5156>>
      [] OTHER -> <<0, 0>>

\* x * c for a two-limb constant c
Wide(x, c) ==
    [hi |-> x * c[1] + ((x * c[2]) \div ExactLimb),
     lo |-> (x * c[2]) % ExactLimb]

WideGE(a, b) == a.hi > b.hi \/ (a.hi = b.hi /\ a.lo >= b.lo)

\* b = ceil(-n * ln(p) / ln(2)^2): b is the least integer with
\* b * ln(2)^2 >= -n * ln(p)
IsCeiling(b, n, p) ==
    /\ WideGE(Wide(b, Ln2SqExact), Wide(n, NegLnExact(p)))
    /\ b = 0 \/ ~WideGE(Wide(b - 1, Ln2SqExact), Wide(n, NegLnExact(p)))

\* C12: optimal_bits_needed(n, p) returns ceil(-n * ln(p) / ln(2)^2), and
\* 335, 730, 959, 10 and 96 for (100, 0.20), (100, 0.03), (100, 0.01),
\* (1, 0.01) and (10, 0.01).
SizingIsCeiling ==
    calc.pc = "bits" =>
        /\ IsCeiling(calc.value, calc.n, calc.p)
        /\ (calc.n = 100 /\ calc.p = 200) => calc.value = 335
        /\ (calc.n = 100 /\ calc.p = 30) => calc.value = 730
        /\ (calc.n = 100 /\ calc.p = 10) => calc.value = 959
        /\ (calc.n = 1 /\ calc.p = 10) => calc.value = 10
        /\ (calc.n = 10 /\ calc.p = 10) => calc.value = 96

\* probe i of an item is computed without abort: the sum does not overflow,
\* the capacity is not zero and the byte position is inside the buffer
ProbeInRange(f, elem, i) ==
    /\ checked_add(Hash(f.hash_fn, elem), i).some
    /\ f.capacity > 0
    /\ ModU64(checked_add(Hash(f.hash_fn, elem), i).val, f.capacity)
          < 8 * Len(f.bits)

\* the bit read at probe i of an item
ProbeBit(f, elem, i) ==
    BitAt(f.bits, ModU64(checked_add(Hash(f.hash_fn, elem), i).val,
                         f.capacity))

AllProbesSet(f, elem) ==
    \A i \in 0..(f.num_hash_fns - 1) :
        ProbeInRange(f, elem, i) /\ ProbeBit(f, elem, i) = 1

\* C13: a has call that returns gives true exactly when all k probe bits
\* (h + i) mod capacity are set, gives false at the first probe index whose
\* bit is unset, and leaves the filter unchanged.
QueryResult ==
    [][last'.op = "has" =>
          /\ bf' = bf
          /\ last'.outcome = "ok" =>
                /\ last'.result <=> AllProbesSet(bf, last'.item)
                /\ ~last'.result =>
                      /\ last'.calls \in 1..bf.num_hash_fns
                      /\ ProbeInRange(bf, last'.item, last'.calls - 1)
                      /\ ProbeBit(bf, last'.item, last'.calls - 1) = 0
                      /\ \A i \in 0..(last'.calls - 2) :
                            ProbeBit(bf, last'.item, i) = 1]_vars

WitnessQueryResult ==
    /\ phase = "ready"
    /\ last.op = "has"
    /\ last.outcome = "ok"
    /\ ~last.result
    /\ last.calls >= 2
    /\ last.calls < bf.num_hash_fns

\* C14: an insert that returns sets exactly the bits (h + i) mod capacity,
\* i in [0, k), on top of the old array; every other bit is unchanged.
InsertEffect ==
    [][(last'.op = "insert" /\ last'.outcome = "ok") =>
          /\ Len(bf'.bits) = Len(bf.bits)
          /\ \A j \in 1..Len(bf.bits) : bf'.bits[j] \in 0..255
          /\ \A idx \in BitIndexes(bf.bits) :
                BitAt(bf'.bits, idx) = 1
                    <=> (BitAt(bf.bits, idx) = 1
                            \/ idx \in ProbeBits(bf, last'.item))]_vars

WitnessInsertEffect ==
    /\ phase = "ready"
    /\ last.op = "insert"
    /\ bf.hash_fn = "CustomHasher"
    /\ bf.num_hash_fns >= 2
    /\ Cardinality(inserted) >= 2
    /\ \E j \in 1..Len(bf.bits) : bf.bits[j] \notin {0, 255}

\* h + i is above u64::MAX, for i < 2^16
SumExceedsU64(h, i) ==
    h[1] = LimbBase - 1 /\ h[2] = LimbBase - 1 /\ h[3] = LimbBase - 1
        /\ h[4] + i >= LimbBase

Overflows(f, elem) ==
    \E i \in 0..(f.num_hash_fns - 1) : SumExceedsU64(Hash(f.hash_fn, elem), i)

\* the first probe index whose sum overflows
FirstOverflow(f, elem) ==
    CHOOSE i \in 0..(f.num_hash_fns - 1) :
        /\ SumExceedsU64(Hash(f.hash_fn, elem), i)
        /\ \A j \in 0..(i - 1) : ~SumExceedsU64(Hash(f.hash_fn, elem), j)

\* C15 as stated: whenever h + i overflows for some probe index i < k,
\* insert and has abort at that probe.
OverflowAlwaysAborts ==
    (last.op \in {"insert", "has"} /\ Overflows(bf, last.item)) =>
        /\ last.outcome = "overflow"
        /\ last.calls = FirstOverflow(bf, last.item) + 1

\* C15 amended: when h + i overflows for some probe index i < k, no call
\* gets past the first such probe and a call that reaches it aborts there;
\* insert never returns, has never returns true, and insert sets no bit
\* other than those of the probes before it.
OverflowNeverWraps ==
    [][(last'.op \in {"insert", "has"} /\ Overflows(bf, last'.item)) =>
          LET j == FirstOverflow(bf, last'.item)
              h == Hash(bf.hash_fn, last'.item)
          IN  /\ last'.calls <= j + 1
              /\ last'.calls = j + 1 => last'.outcome = "overflow"
              /\ last'.op = "insert" => last'.outcome # "ok"
              /\ last'.op = "has" => ~(last'.outcome = "ok" /\ last'.result)
              /\ \A idx \in BitIndexes(bf.bits) :
                    BitAt(bf'.bits, idx) = 1 =>
                        \/ BitAt(bf.bits, idx) = 1
                        \/ \E i \in 0..(j - 1) :
                              idx = ModU64(checked_add(h, i).val,
                                           bf.capacity)]_vars

WitnessOverflowNeverWraps ==
    /\ last.op = "has"
    /\ last.outcome = "overflow"
    /\ last.calls >= 2
    /\ inserted # {}

\* C16: insert invokes the hash strategy exactly once, has at most once.
OneDigestPerOperation ==
    /\ (last.op = "insert" /\ last.outcome = "ok") => last.calls = 1
    /\ last.op = "has" => last.calls <= 1

\* C17: BloomFilter::new(c, p) and BloomBuilder::new(c, p).build() both
\* abort or give identical filters, and the two stay identical (buffer,
\* capacity, probe count, hash strategy, results and aborts) under the same
\* sequence of insert, has and clear calls.
ConstructorEquivalence ==
    twin.pc = "built" =>
        /\ twin.a.phase = twin.b.phase
        /\ twin.a.bf = twin.b.bf
        /\ twin.a.out = twin.b.out

WitnessConstructorEquivalence ==
    /\ twin.pc = "built"
    /\ twin.a.phase = "ready"
    /\ twin.b.bf.num_hash_fns >= 3
    /\ twin.a.out.op = "has"
    /\ twin.a.out.result
    /\ \E j \in 1..Len(twin.b.bf.bits) : twin.b.bf.bits[j] # 0

WitnessBothAbort ==
    /\ twin.pc = "built"
    /\ twin.a.phase = "panicked"
    /\ twin.b.phase = "panicked"

\* C18: in every reachable state of a filter every set bit of the buffer has
\* a global bit index below capacity, whatever the buffer length, so the
\* number of set bits never exceeds capacity.
SetBitsBelowCapacity ==
    phase \in {"ready", "panicked"} =>
        /\ \A idx \in BitIndexes(bf.bits) :
              BitAt(bf.bits, idx) = 1 => idx < bf.capacity
        /\ Cardinality({idx \in BitIndexes(bf.bits) :
                           BitAt(bf.bits, idx) = 1}) <= bf.capacity

WitnessSetBitsBelowCapacity ==
    /\ phase = "ready"
    /\ 8 * Len(bf.bits) > bf.capacity
    /\ Cardinality(inserted) >= 2
    /\ Cardinality({idx \in BitIndexes(bf.bits) :
                       BitAt(bf.bits, idx) = 1}) >= 3

\* C19: after any sequence of successful inserts since construction or the
\* last clear, the bit array depends only on the set of items inserted: it
\* equals the array obtained by inserting each item of that set exactly once,
\* in increasing order, into an all-zero buffer (so repeats and order do not
\* matter).
InsertOrderIndependent ==
    phase = "ready" =>
        bf.bits = InsertEach(bf, inserted, ZeroBits(Len(bf.bits)))

WitnessInsertOrderIndependent ==
    /\ phase = "ready"
    /\ last.op = "insert"
    /\ last.outcome = "ok"
    /\ Cardinality(inserted) >= 2
    /\ \E y \in inserted : y > last.item
    /\ bf.num_hash_fns >= 2
    /\ ~AllZero(bf.bits)

\* C20: in a filter whose probe count is at least its capacity (capacity at
\* least 1), once an insert has succeeded and until clear, every bit in
\* [0, capacity) is set and has(y) returns true for every item y whose
\* probes do not overflow.
Saturation ==
    (/\ phase = "ready"
     /\ bf.capacity >= 1
     /\ bf.num_hash_fns >= bf.capacity
     /\ inserted # {}) =>
        /\ \A idx \in 0..(bf.capacity - 1) :
              /\ idx < 8 * Len(bf.bits)
              /\ BitAt(bf.bits, idx) = 1
        /\ \A y \in Items :
              ~Overflows(bf, y) =>
                  /\ has(bf, y).outcome = "ok"
                  /\ has(bf, y).result

WitnessSaturation ==
    /\ phase = "ready"
    /\ bf.capacity >= 2
    /\ bf.num_hash_fns >= bf.capacity
    /\ Cardinality(inserted) = 1
    /\ last.op = "has"
    /\ last.item \notin inserted
    /\ last.outcome = "ok"
    /\ last.result

====
